---- MODULE Spec2Model ----
(***************************************************************************)
(* Model of daily_signal_generator.py: the daily run of the 5-asset        *)
(* moving-average allocation bot.  One run downloads the closing prices,   *)
(* computes the three moving-average signals of every asset, the scores,   *)
(* the allocation scalars and the weights of the last two days, builds     *)
(* two reports and sends them over Telegram.                               *)
(*                                                                         *)
(* Numbers.  Prices are integers and NaN is the value NaN.  Scalars and    *)
(* base weights are in hundredths (0.75 is 75, 0.20 is 20), so weights and *)
(* cash are in units of 1/10000 (0.15 is 1500, 1.0 is One).  A rolling     *)
(* mean is the fraction num / den: price > mean is price * den > num.      *)
(***************************************************************************)
EXTENDS Integers, Sequences, FiniteSets, Bags, TLC

----------------------------------------------------------------------------
(* Strategy parameters (section 1 of the source).                          *)

ASSETS == <<"102110.KS", "283580.KS", "453810.KS", "148070.KS", "385560.KS">>

Tickers == {ASSETS[i] : i \in 1..Len(ASSETS)}

BASE_WEIGHTS == [ticker \in Tickers |-> 20]

MA_WINDOWS == <<20, 120, 200>>

Windows == {MA_WINDOWS[i] : i \in 1..Len(MA_WINDOWS)}

\* SCALAR_MAP without the key 1.
ScalarMapWithoutOne == (3 :> 100) @@ (2 :> 75) @@ (0 :> 0)

SCALAR_MAP == (3 :> 100) @@ (2 :> 75) @@ (1 :> 50) @@ (0 :> 0)

\* The modules the source imports by name (lines 1-8).
IMPORTS == {"yf", "np", "pd", "sys", "os", "requests", "datetime", "pytz"}

\* pandas' missing value.
NaN == -1

\* 1.0 in units of 1/10000.
One == 10000

\* 0.0001 in units of 1/10000.
Epsilon == 1

----------------------------------------------------------------------------
(* Bounds of the explored inputs.                                          *)

\* The price every series starts from.
BasePrice == 100

\* The number of last days whose price is drawn freely.
TailLen == 2

\* The longest downloaded table, in rows.
MaxDays == 202

\* The number of leading rows without a price of a late-listed asset.
MaxLead == 2

----------------------------------------------------------------------------
(* pandas operations, by what they do on one column (a sequence).          *)

\* DataFrame.ffill on one column: every missing value takes the last value
\* before it; leading missing values stay missing.
RECURSIVE LastValid(_, _)
LastValid(s, i) ==
    IF i = 0 THEN NaN
    ELSE IF s[i] # NaN THEN s[i]
    ELSE LastValid(s, i - 1)

ffill(s) == [i \in 1..Len(s) |-> LastValid(s, i)]

\* The sum of s[lo..hi] for a sequence s of positive numbers, which is a
\* bag with as many copies of i as s[i].
SumOf(s, lo, hi) == BagCardinality(SubSeq(s, lo, hi))

\* MinPeriods with min_periods=1: a mean of the rows there are.
MinPeriodsOne(window) == 1

\* The number of rows a rolling window needs to give a value: pandas'
\* min_periods, which defaults to the window.
MinPeriods(window) == window

\* Series.rolling(window).mean() on one column.  A mean is the fraction
\* num / den of the sum of the window's prices and their number; it is
\* missing (den = 0) unless the window holds MinPeriods(window) prices.
\* The window of row t is the rows t - window + 1 .. t that exist.  Both
\* totals are taken one higher per row, as SumOf needs.
NaNMean == [num |-> 0, den |-> 0]

RollingMean(s, window) ==
    LET n        == Len(s)
        price1   == [i \in 1..n |-> IF s[i] = NaN THEN 1 ELSE s[i] + 1]
        valid1   == [i \in 1..n |-> IF s[i] = NaN THEN 1 ELSE 2]
        First(t) == IF t > window THEN t - window + 1 ELSE 1
        Size(t)  == t - First(t) + 1
        Nobs(t)  == SumOf(valid1, First(t), t) - Size(t)
        Sum(t)   == SumOf(price1, First(t), t) - Size(t)
    IN  [t \in 1..n |->
            IF Size(t) < MinPeriods(window) THEN NaNMean
            ELSE LET nobs == Nobs(t)
                 IN  IF nobs >= MinPeriods(window) /\ nobs > 0
                     THEN [num |-> Sum(t), den |-> nobs]
                     ELSE NaNMean]

\* Above with >= for >.
AboveOrAt(price, mean) ==
    /\ price # NaN
    /\ mean # NaNMean
    /\ price * mean.den >= mean.num

\* price > mean, where a comparison with a missing value is False.
Above(price, mean) ==
    /\ price # NaN
    /\ mean # NaNMean
    /\ price * mean.den > mean.num

\* Signal that holds a state at the average: ON above the average, and ON
\* at the average when the day before was above its average.
SignalHolding(s, mean) ==
    [t \in 1..Len(s) |->
        IF \/ s[t] # NaN /\ mean[t] # NaNMean
              /\ s[t] * mean[t].den > mean[t].num
           \/ /\ t > 1
              /\ s[t] # NaN /\ mean[t] # NaNMean
              /\ s[t] * mean[t].den = mean[t].num
              /\ s[t - 1] # NaN /\ mean[t - 1] # NaNMean
              /\ s[t - 1] * mean[t - 1].den > mean[t - 1].num
        THEN 1 ELSE 0]

\* (column > mean).astype(int)
Signal(s, mean) ==
    [t \in 1..Len(s) |-> IF Above(s[t], mean[t]) THEN 1 ELSE 0]

\* SCALAR_MAP.get(x, 0.0)
ScalarOf(x) == IF x \in DOMAIN SCALAR_MAP THEN SCALAR_MAP[x] ELSE 0


\* sum(weights.values())
RECURSIVE SumOver(_, _)
SumOver(f, S) ==
    IF S = {} THEN 0
    ELSE LET x == CHOOSE y \in S : TRUE IN f[x] + SumOver(f, S \ {x})

\* abs(x)
Abs(x) == IF x < 0 THEN -x ELSE x

----------------------------------------------------------------------------
(* The downloaded tables the model explores.  All columns have the same    *)
(* rows.  One asset's last TailLen prices are drawn freely around the base *)
(* price; the deviations are those that put the last price below, at and   *)
(* above each window's mean.  The other assets share one tail.             *)

Deviations == {0, 1} \cup {w - 1 : w \in Windows}

Tails == [1..TailLen -> Deviations]

Lens ==
    {0, 1, 2} \cup {w - 1 : w \in Windows} \cup Windows
              \cup {w + 1 : w \in Windows} \cup {MaxDays}

\* The other assets: flat, or score 2 on the day before and 3 on the last.
Flat == [i \in 1..TailLen |-> 0]

Mixed == <<MA_WINDOWS[1] - 1, 1, MA_WINDOWS[1] - 1>>

\* rest: the other assets' tail; lead: the free asset's leading rows with
\* no price; hole: the free asset misses the print before its tail.
Plain == [rest |-> Flat, lead |-> 0, hole |-> FALSE]

Variants ==
    {Plain,
     [rest |-> Mixed, lead |-> 0,       hole |-> FALSE],
     [rest |-> Flat,  lead |-> MaxLead, hole |-> FALSE],
     [rest |-> Flat,  lead |-> 0,       hole |-> TRUE]}

\* The explored combinations: every length with the first asset free and
\* the plain variant; the other variants on tables that reach the longest
\* window; every other asset free on the shortest table that gives the
\* shortest window a value on both reported days.
Explored(n, free, v) ==
    /\ free # ASSETS[1] => n = MA_WINDOWS[1] + 1 /\ v = Plain
    /\ v # Plain => n \in {MA_WINDOWS[3], MA_WINDOWS[3] + 1}

Column(n, tail, lead, hole) ==
    [i \in 1..n |->
        IF i <= lead THEN NaN
        ELSE IF i > n - Len(tail) THEN BasePrice + tail[i - (n - Len(tail))]
        ELSE IF hole /\ i = n - Len(tail) THEN NaN
        ELSE BasePrice]

Table(n, free, tail, v) ==
    [a \in Tickers |->
        IF a = free THEN Column(n, tail, v.lead, v.hole)
        ELSE Column(n, v.rest, 0, FALSE)]

----------------------------------------------------------------------------
(* State.                                                                  *)

VARIABLES
    pc,                     \* position of the main run
    data_full,              \* data_full['Close'], ticker -> column
    all_prices_df,          \* the forward-filled closes
    ma_20, ma_120, ma_200,  \* all_prices_df.rolling(window).mean()
    sig_20, sig_120, sig_200,
    total_scores,
    scalars,
    today_scalars, yesterday_scalars,
    today_weights, yesterday_weights,
    today_total_cash, yesterday_total_cash,
    is_rebalancing_needed,
    report_summary, report_detail,
    success1, success2,
    calls,                  \* the calls of send_telegram_message, in order
    caught,                 \* the exception the main run caught
    exit_code               \* the process' exit status, once pc = "exit"

frames == <<data_full, all_prices_df, ma_20, ma_120, ma_200,
            sig_20, sig_120, sig_200, total_scores, scalars>>

alloc == <<today_scalars, yesterday_scalars, today_weights,
           yesterday_weights, today_total_cash, yesterday_total_cash,
           is_rebalancing_needed>>

reports == <<report_summary, report_detail>>

main == <<success1, success2, calls, caught, exit_code>>

vars == <<pc, frames, alloc, reports, main>>

NoFrame == <<>>

NoReport == [kind |-> "none"]

Init ==
    /\ pc = "start"
    /\ data_full = NoFrame
    /\ all_prices_df = NoFrame
    /\ ma_20 = NoFrame
    /\ ma_120 = NoFrame
    /\ ma_200 = NoFrame
    /\ sig_20 = NoFrame
    /\ sig_120 = NoFrame
    /\ sig_200 = NoFrame
    /\ total_scores = NoFrame
    /\ scalars = NoFrame
    /\ today_scalars = NoFrame
    /\ yesterday_scalars = NoFrame
    /\ today_weights = NoFrame
    /\ yesterday_weights = NoFrame
    /\ today_total_cash = 0
    /\ yesterday_total_cash = 0
    /\ is_rebalancing_needed = FALSE
    /\ report_summary = NoReport
    /\ report_detail = NoReport
    /\ success1 = FALSE
    /\ success2 = FALSE
    /\ calls = <<>>
    /\ caught = "none"
    /\ exit_code = 0

----------------------------------------------------------------------------
(* get_daily_signals_and_report, lines 46-77: download and computation.    *)

\* Cash that leaves the first asset out of the sum.
CashWithoutFirst(weights) == One - SumOver(weights, Tickers \ {ASSETS[1]})

\* today_total_cash = 1.0 - sum(today_weights.values())
Cash(weights) == One - SumOver(weights, Tickers)

\* (scalars * pd.Series(BASE_WEIGHTS)).to_dict()
Weights(row) == [a \in Tickers |-> row[a] * BASE_WEIGHTS[a]]

\* RebalancingNeeded that compares the totals of the two days.
RebalancingByTotal(today, yesterday) ==
    SumOver(today, Tickers) # SumOver(yesterday, Tickers)

\* not today_scalars.equals(yesterday_scalars)
RebalancingNeeded(today, yesterday) == today # yesterday

\* DataFrame.iloc[-k] of a table of n rows.
Row(frame, n, k) == [a \in Tickers |-> frame[a][n + 1 - k]]

\* The locals of the function are gone once it raises or returns.
DropFrames ==
    /\ data_full' = NoFrame
    /\ all_prices_df' = NoFrame
    /\ ma_20' = NoFrame
    /\ ma_120' = NoFrame
    /\ ma_200' = NoFrame
    /\ sig_20' = NoFrame
    /\ sig_120' = NoFrame
    /\ sig_200' = NoFrame
    /\ total_scores' = NoFrame
    /\ scalars' = NoFrame

DropAlloc ==
    /\ today_scalars' = NoFrame
    /\ yesterday_scalars' = NoFrame
    /\ today_weights' = NoFrame
    /\ yesterday_weights' = NoFrame
    /\ today_total_cash' = 0
    /\ yesterday_total_cash' = 0
    /\ is_rebalancing_needed' = FALSE

Raise(exception) ==
    /\ pc' = "except"
    /\ caught' = exception

\* Lines 51-62: the frames computed from the downloaded closes.
Frames(close) ==
    LET n      == Len(close[ASSETS[1]])
        prices == [a \in Tickers |-> ffill(close[a])]
        m20    == [a \in Tickers |-> RollingMean(prices[a], MA_WINDOWS[1])]
        m120   == [a \in Tickers |-> RollingMean(prices[a], MA_WINDOWS[2])]
        m200   == [a \in Tickers |-> RollingMean(prices[a], MA_WINDOWS[3])]
        s20    == [a \in Tickers |-> Signal(prices[a], m20[a])]
        s120   == [a \in Tickers |-> Signal(prices[a], m120[a])]
        s200   == [a \in Tickers |-> Signal(prices[a], m200[a])]
        scores == [a \in Tickers |->
                      [t \in 1..n |-> s20[a][t] + s120[a][t] + s200[a][t]]]
    IN  [all_prices_df |-> prices,
         ma_20         |-> m20,
         ma_120        |-> m120,
         ma_200        |-> m200,
         sig_20        |-> s20,
         sig_120       |-> s120,
         sig_200       |-> s200,
         total_scores  |-> scores,
         scalars       |-> [a \in Tickers |->
                               [t \in 1..n |-> ScalarOf(scores[a][t])]]]

\* Lines 46-49: yf.download and the check of an empty table.
Download ==
    /\ pc = "start"
    /\ \E n \in Lens, free \in Tickers, tail \in Tails, v \in Variants :
        /\ Explored(n, free, v)
        /\ IF n = 0
           THEN /\ Raise("ValueError")
                /\ data_full' = NoFrame
           ELSE /\ pc' = "downloaded"
                /\ caught' = caught
                /\ data_full' = Table(n, free, tail, v)
    /\ UNCHANGED <<all_prices_df, ma_20, ma_120, ma_200,
                   sig_20, sig_120, sig_200,
                   total_scores, scalars, alloc, reports,
                   success1, success2, calls, exit_code>>

\* Lines 51-77.  scalars.iloc[-2] of a one-row table raises IndexError.
ComputeSignals ==
    /\ pc = "downloaded"
    /\ LET n == Len(data_full[ASSETS[1]])
       IN  IF n < 2
           THEN /\ Raise("IndexError")
                /\ DropFrames
                /\ DropAlloc
           ELSE \E f \in {Frames(data_full)} :
                /\ pc' = "report"
                /\ caught' = caught
                /\ data_full' = data_full
                /\ all_prices_df' = f.all_prices_df
                /\ ma_20' = f.ma_20
                /\ ma_120' = f.ma_120
                /\ ma_200' = f.ma_200
                /\ sig_20' = f.sig_20
                /\ sig_120' = f.sig_120
                /\ sig_200' = f.sig_200
                /\ total_scores' = f.total_scores
                /\ scalars' = f.scalars
                /\ today_scalars' = Row(f.scalars, n, 1)
                /\ yesterday_scalars' = Row(f.scalars, n, 2)
                /\ today_weights' = Weights(Row(f.scalars, n, 1))
                /\ yesterday_weights' = Weights(Row(f.scalars, n, 2))
                /\ today_total_cash' = Cash(Weights(Row(f.scalars, n, 1)))
                /\ yesterday_total_cash' = Cash(Weights(Row(f.scalars, n, 2)))
                /\ is_rebalancing_needed' =
                       RebalancingNeeded(Row(f.scalars, n, 1),
                                         Row(f.scalars, n, 2))
    /\ UNCHANGED <<reports, success1, success2, calls, exit_code>>

----------------------------------------------------------------------------
(* get_daily_signals_and_report, lines 79-200: the two reports.  A report  *)
(* is kept as the values its lines are formatted from; the price lines     *)
(* and the disparity of the detail report are left out.                    *)

\* Lines 98-107: the banner of the summary.
Banner(needed) == IF needed THEN "trade needed" ELSE "no trade needed"

\* TargetEmoji that marks increases only.
TargetEmojiOfIncrease(today, yesterday) ==
    IF today > yesterday THEN "target" ELSE "*"

\* Line 115: the mark of an asset in the list of target weights.
TargetEmoji(today, yesterday) == IF today # yesterday THEN "target" ELSE "*"

\* Line 118: the mark of the cash line.
CashEmoji(today, yesterday) ==
    IF Abs(today - yesterday) > Epsilon THEN "target" ELSE "*"

\* Lines 129-142: one row of the table of changes.
format_change_row(yesterday, today) ==
    LET delta == today - yesterday
    IN  [yesterday |-> yesterday,
         today     |-> today,
         change    |-> IF Abs(delta) < Epsilon THEN "keep"
                       ELSE IF delta > 0 THEN "up" ELSE "down"]

\* Lines 183-187: one window's line of the detail report.
WindowLine(today_state_val, yesterday_state_val) ==
    [state  |-> IF today_state_val = 1 THEN "ON" ELSE "OFF",
     change |-> IF today_state_val > yesterday_state_val THEN "new ON"
                ELSE IF today_state_val < yesterday_state_val THEN "new OFF"
                ELSE "keep"]

\* locals()[f'sig_{window}']
SigOf(window) ==
    IF window = 20 THEN sig_20
    ELSE IF window = 120 THEN sig_120
    ELSE sig_200

\* all_prices_df[ticker].rolling(window=window).mean() of line 190 is the
\* frame of lines 55-57 again.
MaOf(window) ==
    IF window = 20 THEN ma_20
    ELSE IF window = 120 THEN ma_120
    ELSE ma_200

BuildReport ==
    /\ pc = "report"
    /\ LET n == Len(all_prices_df[ASSETS[1]])
       IN  /\ report_summary' =
                [kind    |-> "summary",
                 banner  |-> Banner(is_rebalancing_needed),
                 targets |-> [a \in Tickers |->
                                 [emoji  |-> TargetEmoji(today_weights[a],
                                                         yesterday_weights[a]),
                                  weight |-> today_weights[a]]],
                 cash    |-> [emoji  |-> CashEmoji(today_total_cash,
                                                   yesterday_total_cash),
                              weight |-> today_total_cash],
                 rows    |-> [a \in Tickers |->
                                 format_change_row(yesterday_weights[a],
                                                   today_weights[a])],
                 cash_row |-> format_change_row(yesterday_total_cash,
                                                today_total_cash)]
           /\ report_detail' =
                [kind    |-> "detail",
                 assets  |-> [a \in Tickers |->
                                 [score  |-> total_scores[a][n],
                                  status |-> IF total_scores[a][n] > 0
                                             THEN "ON" ELSE "OFF",
                                  windows |-> [w \in Windows |->
                                      WindowLine(SigOf(w)[a][n],
                                                 SigOf(w)[a][n - 1])]]]]
    /\ pc' = "send1"
    /\ DropFrames
    /\ DropAlloc
    /\ UNCHANGED main

----------------------------------------------------------------------------
(* send_telegram_message, lines 21-40.  It returns False when a secret is  *)
(* missing or the request fails with a response, True when the request     *)
(* succeeds; when the request fails without a response (a timeout, a       *)
(* refused connection) the handler's e.response.text raises                *)
(* AttributeError.                                                         *)

SendResults == {"True", "False", "AttributeError"}

Call(message, parse_mode, result) ==
    [message |-> message, parse_mode |-> parse_mode, result |-> result]

----------------------------------------------------------------------------
(* The main run, lines 203-236.                                            *)

\* Line 217.
SendSummary ==
    /\ pc = "send1"
    /\ \E r \in SendResults :
        /\ calls' = Append(calls, Call("summary", "Markdown", r))
        /\ IF r = "AttributeError"
           THEN /\ Raise("AttributeError")
                /\ success1' = success1
           ELSE /\ pc' = "sleep"
                /\ caught' = caught
                /\ success1' = (r = "True")
    /\ UNCHANGED <<frames, alloc, reports, success2, exit_code>>

\* Lines 219-225.  time.sleep(1) needs the module time.
SleepSendDetail ==
    /\ pc = "sleep"
    /\ IF "time" \notin IMPORTS
       THEN /\ Raise("NameError")
            /\ UNCHANGED <<success2, calls, exit_code>>
       ELSE \E r \in SendResults :
            /\ calls' = Append(calls, Call("detail", "Markdown", r))
            /\ IF r = "AttributeError"
               THEN /\ Raise("AttributeError")
                    /\ UNCHANGED <<success2, exit_code>>
               ELSE /\ success2' = (r = "True")
                    /\ IF success1 /\ r = "True"
                       THEN /\ pc' = "exit"
                            /\ caught' = caught
                            /\ exit_code' = 0
                       ELSE /\ Raise("Exception")
                            /\ exit_code' = exit_code
    /\ UNCHANGED <<frames, alloc, reports, success1>>

\* The status the process ends with after the failure notification:
\* sys.exit(1), or an exception that leaves the handler uncaught.
FailureStatus == 1

\* HandleException without sys.exit(1): the process ends normally.
HandleExceptionWithoutExit ==
    /\ pc = "except"
    /\ \E r \in SendResults :
        calls' = Append(calls, Call("error", "None", r))
    /\ exit_code' = 0
    /\ pc' = "exit"
    /\ UNCHANGED <<frames, alloc, reports, success1, success2, caught>>

\* Lines 227-236.
HandleException ==
    /\ pc = "except"
    /\ \E r \in SendResults :
        calls' = Append(calls, Call("error", "None", r))
    /\ exit_code' = FailureStatus
    /\ pc' = "exit"
    /\ UNCHANGED <<frames, alloc, reports, success1, success2, caught>>

Next ==
    \/ Download
    \/ ComputeSignals
    \/ BuildReport
    \/ SendSummary
    \/ SleepSendDetail
    \/ HandleException

Spec == Init /\ [][Next]_vars

----------------------------------------------------------------------------
(* Properties.  The frames and the allocation are those of the state       *)
(* between the computation and the reports (pc = "report").                *)

Computed == pc = "report"

Rows == Len(all_prices_df[ASSETS[1]])

\* The band of the source has no width: the price is compared with the
\* moving average itself, which is both the entry and the exit threshold.
upper(mean) == mean

lower(mean) == mean

Defined(mean) == mean.den > 0

Gt(price, mean) == price * mean.den > mean.num

Ge(price, mean) == price * mean.den >= mean.num

\* The sum of s[lo..hi], added up one by one.
RECURSIVE PlainSum(_, _, _)
PlainSum(s, lo, hi) ==
    IF lo > hi THEN 0
    ELSE IF lo = hi THEN s[lo]
    ELSE LET mid == (lo + hi) \div 2
         IN  PlainSum(s, lo, mid) + PlainSum(s, mid + 1, hi)

\* On the two reported days, a moving average that has a value is the
\* arithmetic mean of the last w prices.
IsWindowAverage(a, w) ==
    \A t \in {Rows - 1, Rows} :
        Defined(MaOf(w)[a][t])
        => /\ t >= w
           /\ MaOf(w)[a][t].den = w
           /\ MaOf(w)[a][t].num = PlainSum(all_prices_df[a], t - w + 1, t)

\* The number of prices of a column up to and including each day.
Observations(a) ==
    LET valid1 == [t \in 1..Rows |->
                      IF all_prices_df[a][t] = NaN THEN 1 ELSE 2]
    IN  [t \in 1..Rows |-> SumOf(valid1, 1, t) - t]

\* C1 as claimed: a state that was ON the day before is ON whenever the
\* price is at or above the lower band, and OFF only strictly below it.
C1_StaysOnAtLowerBand ==
    Computed =>
        \A a \in Tickers, w \in Windows :
            LET mean == MaOf(w)[a]
            IN  \A t \in 2..Rows :
                    Defined(mean[t]) /\ SigOf(w)[a][t - 1] = 1
                    => (SigOf(w)[a][t] = 1
                        <=> Ge(all_prices_df[a][t], lower(mean[t])))

\* C1 amended: a state that was ON the day before is ON exactly when the
\* price is strictly above the moving average; at the average it is OFF.
C1_OnOnlyAboveAverage ==
    Computed =>
        \A a \in Tickers, w \in Windows :
            LET mean == MaOf(w)[a]
            IN  /\ IsWindowAverage(a, w)
                /\ \A t \in 2..Rows :
                    Defined(mean[t]) /\ SigOf(w)[a][t - 1] = 1
                    => (SigOf(w)[a][t] = 1
                        <=> Gt(all_prices_df[a][t], lower(mean[t])))

\* A state ON the day before whose price falls exactly to the average and
\* is OFF, and one whose price stays above the average and is ON.
C1_Witness ==
    /\ Computed
    /\ \E a \in Tickers, w \in Windows :
        LET mean == MaOf(w)[a]
        IN  /\ \E t \in 2..Rows :
                /\ Defined(mean[t])
                /\ SigOf(w)[a][t - 1] = 1
                /\ all_prices_df[a][t] * mean[t].den = mean[t].num
                /\ SigOf(w)[a][t] = 0
    /\ \E a \in Tickers, w \in Windows :
        LET mean == MaOf(w)[a]
        IN  /\ \E t \in 2..Rows :
                /\ Defined(mean[t])
                /\ SigOf(w)[a][t - 1] = 1
                /\ SigOf(w)[a][t] = 1

C3_ShortHistoryGivesNoAllocation ==
    Computed => Rows >= MA_WINDOWS[3]

\* C4: the rebalancing flag is set exactly when the scalar of some asset
\* on the last day differs from its scalar on the day before, where the
\* weights of both days are the scalars of the scores times the base weight.
C4_FlagIffSomeScalarDiffers ==
    Computed =>
        /\ is_rebalancing_needed
           <=> \E a \in Tickers : scalars[a][Rows] # scalars[a][Rows - 1]
        /\ \A a \in Tickers :
            /\ today_weights[a]
               = ScalarOf(total_scores[a][Rows]) * BASE_WEIGHTS[a]
            /\ yesterday_weights[a]
               = ScalarOf(total_scores[a][Rows - 1]) * BASE_WEIGHTS[a]

\* Window states that changed while every score stayed the same, and the
\* flag is not set.
C4_Witness ==
    /\ Computed
    /\ ~is_rebalancing_needed
    /\ \E a \in Tickers, w \in Windows :
        SigOf(w)[a][Rows] # SigOf(w)[a][Rows - 1]

\* A score that fell from 2 to 0, the weight from 0.15 to 0, and the flag
\* is set while another asset kept its scalar.
C4_WitnessSet ==
    /\ Computed
    /\ is_rebalancing_needed
    /\ \E a \in Tickers :
        /\ total_scores[a][Rows - 1] = 2
        /\ total_scores[a][Rows] = 0
        /\ yesterday_weights[a] = 1500
        /\ today_weights[a] = 0
    /\ \E a \in Tickers : scalars[a][Rows] = scalars[a][Rows - 1]

\* C5: on both reported days the five weights and the cash weight add up
\* to exactly 1, each weight being the scalar times the base weight.
C5_WeightsAndCashSumToOne ==
    Computed =>
        /\ SumOver(today_weights, Tickers) + today_total_cash = One
        /\ SumOver(yesterday_weights, Tickers) + yesterday_total_cash = One
        /\ \A a \in Tickers :
            /\ today_weights[a] = scalars[a][Rows] * BASE_WEIGHTS[a]
            /\ yesterday_weights[a] = scalars[a][Rows - 1] * BASE_WEIGHTS[a]

\* Some asset is invested and some cash is held, on both days.
C5_Witness ==
    /\ Computed
    /\ today_total_cash \in 1..(One - 1)
    /\ yesterday_total_cash \in 1..(One - 1)
    /\ today_total_cash # yesterday_total_cash

\* C6: every score of every day is one of 0, 1, 2, 3, a key of the table,
\* so the scalar is the table's and never the default; and the table does
\* not decrease with the score.
C6_ScoreInTableAndTableMonotone ==
    /\ \A i \in DOMAIN SCALAR_MAP, j \in DOMAIN SCALAR_MAP :
        i <= j => SCALAR_MAP[i] <= SCALAR_MAP[j]
    /\ Computed =>
        \A a \in Tickers, t \in 1..Rows :
            /\ total_scores[a][t] \in 0..3
            /\ total_scores[a][t]
               = Cardinality({w \in Windows : SigOf(w)[a][t] = 1})
            /\ total_scores[a][t] \in DOMAIN SCALAR_MAP
            /\ scalars[a][t] = SCALAR_MAP[total_scores[a][t]]

\* All four scores occur on the last day.
C6_Witness ==
    /\ Computed
    /\ \A k \in 0..3 : \E a \in Tickers, t \in 1..Rows : total_scores[a][t] = k

\* C7: on a day with fewer than w prices up to and including it, the
\* window's state is OFF and adds nothing to the score, whatever the state
\* of the other days, and the computation raises nothing.
C7_WarmUpIsOff ==
    Computed =>
        /\ caught = "none"
        /\ \A a \in Tickers :
            LET obs == Observations(a)
            IN  \A w \in Windows, t \in 1..Rows :
                    obs[t] < w =>
                        /\ SigOf(w)[a][t] = 0
                        /\ ~Defined(MaOf(w)[a][t])
                        /\ total_scores[a][t]
                           = Cardinality({v \in Windows \ {w} :
                                             SigOf(v)[a][t] = 1})

\* A table of as many rows as the longest window in which a late-listed
\* asset has too few prices for it on the last day, its price is above the
\* other averages, and the window is OFF.
C7_Witness ==
    /\ Computed
    /\ Rows >= MA_WINDOWS[3]
    /\ \E a \in Tickers :
        /\ Observations(a)[Rows] < MA_WINDOWS[3]
        /\ sig_200[a][Rows] = 0
        /\ sig_120[a][Rows] = 1
        /\ sig_20[a][Rows] = 1

\* The process has ended.
Exited == pc = "exit"

\* The report generation failed: the run caught its error and has no report.
GenerationFailed == report_summary = NoReport /\ caught # "none"

\* C8: when the report generation fails, neither report is sent, the only
\* message is one failure notification in plain text, and the process ends
\* with status 1.
C8_FailedRunOnlyNotifies ==
    GenerationFailed =>
        /\ caught \in {"ValueError", "IndexError"}
        /\ \A i \in 1..Len(calls) :
            /\ calls[i].message = "error"
            /\ calls[i].parse_mode # "Markdown"
        /\ Len(calls) <= 1
        /\ Exited => Len(calls) = 1 /\ exit_code = 1

\* A run that ended after an empty download.
C8_Witness ==
    /\ Exited
    /\ caught = "ValueError"
    /\ Len(calls) = 1
    /\ calls[1].result = "True"

\* C9 as claimed: a run whose report generation and every send succeeded
\* has sent the summary and then the detail report, each once, no failure
\* notification, and has not ended with status 1.
C9_SuccessfulRunSendsBothReports ==
    /\ Exited
    /\ report_summary # NoReport
    /\ \A i \in 1..Len(calls) : calls[i].result = "True"
    => /\ calls = <<Call("summary", "Markdown", "True"),
                    Call("detail", "Markdown", "True")>>
       /\ exit_code # 1

\* The reports are there: the summary has been built.
Reported == report_summary # NoReport

\* C10: the three change indicators of the summary agree: the banner says
\* a trade is needed exactly when some asset is marked in the list of
\* target weights, exactly when some asset's row of the table of changes
\* shows an increase or a decrease.
C10_ChangeIndicatorsAgree ==
    Reported =>
        LET flag   == report_summary.banner = "trade needed"
            marked == \E a \in Tickers :
                         report_summary.targets[a].emoji = "target"
            moved  == \E a \in Tickers :
                         report_summary.rows[a].change # "keep"
        IN  /\ flag <=> marked
            /\ marked <=> moved
            /\ \A a \in Tickers :
                report_summary.rows[a].change # "keep"
                <=> Abs(report_summary.rows[a].today
                        - report_summary.rows[a].yesterday) >= Epsilon

\* A trade is needed, an asset's weight went up and another's went down,
\* and the cash line shows no change.
C10_Witness ==
    /\ Reported
    /\ report_summary.banner = "trade needed"
    /\ \E a \in Tickers : report_summary.rows[a].change = "up"
    /\ \E a \in Tickers : report_summary.rows[a].change = "down"
    /\ report_summary.cash_row.change = "keep"
    /\ report_summary.cash.emoji = "*"

====
